---- MODULE Spec2Model ----
(***************************************************************************)
(* A model of fedmsg.meta (src/fedmsg/meta/__init__.py): the process-wide  *)
(* processor registry and make_processors, the dispatch msg2processor, the *)
(* decorators legacy_condition and with_processor, the msg2* queries and   *)
(* conglomerate.                                                           *)
(*                                                                         *)
(* make_processors is modelled statement by statement (the reset of the    *)
(* global, one step per entry point, the append of the DefaultProcessor,   *)
(* the final length test), so that a reader can run between two of its     *)
(* statements.  Every reader (msg2processor, a msg2* query, conglomerate)  *)
(* is one step that reads the registry as it is at that moment; `ret` is   *)
(* what the most recent step returned or raised, with the arguments of the *)
(* call, until the caller has taken it.                                    *)
(*                                                                         *)
(* Plugin code is outside the module.  A message carries, instead of its   *)
(* payload, what the processors answer on it: `h` (the result of every     *)
(* processor's handle_msg), `keyerr` (the processors whose accessors miss  *)
(* a key in it) and `nolink` (link is None for it).                        *)
(***************************************************************************)
EXTENDS Integers, Sequences, FiniteSets, TLC

VARIABLES processors, mk, log, ret

vars == <<processors, mk, log, ret>>

\* The number of entry points the host can advertise under 'fedmsg.meta'.
MaxPlugins == 2

\* The longest list handed to conglomerate.
MaxMsgs == 2

\* The DefaultProcessor class; entry point k loads plugin class k >= 1.
DefaultProcessor == 0

\* The length make_processors compares the registry with before it warns.
BuiltinCount == 3

Plugins == 1..MaxPlugins

Procs == {DefaultProcessor} \cup Plugins

(***************************************************************************)
(* Results of a call: a returned value or a raised exception.              *)
(***************************************************************************)
Return(v) == [kind |-> "return", val |-> v]

Raise(e) == [kind |-> "raise", exc |-> e]

\* The module-level sentinel: an exception instance whose __iter__ and
\* __len__ raise it.
ProcessorsNotInitialized == [kind |-> "ProcessorsNotInitialized"]

\* A list object bound to the global.
List(items) == [kind |-> "list", items |-> items]

\* No warning logged yet by the running (or the last) make_processors.
NoWarnings == [failed |-> {}, crippled |-> FALSE]

\* `ret` after a step of make_processors, which returns nothing.
NoCall == [op |-> "make_processors"]

Idle == [pc |-> "idle", n |-> 0, idx |-> 0]

(***************************************************************************)
(* make_processors, one action per statement.                              *)
(***************************************************************************)

\* processors = [] ; the for loop asks pkg_resources for the entry points,
\* of which the host advertises n.
make_processors_reset ==
    /\ mk.pc = "idle"
    /\ \E n \in 0..MaxPlugins :
          mk' = [pc |-> "loop", n |-> n, idx |-> 1]
    /\ processors' = List(<<>>)
    /\ log' = NoWarnings
    /\ ret' = NoCall

\* try: processors.append(processor.load()(_, **config)) succeeds.
make_processors_load ==
    /\ mk.pc = "loop"
    /\ mk.idx <= mk.n
    /\ processors' = List(Append(processors.items, mk.idx))
    /\ mk' = [mk EXCEPT !.idx = @ + 1]
    /\ ret' = NoCall
    /\ UNCHANGED log

\* The except clause lost: the exception leaves make_processors.
make_processors_raise ==
    /\ mk.pc = "loop"
    /\ mk.idx <= mk.n
    /\ mk' = [mk EXCEPT !.pc = "idle"]
    /\ ret' = NoCall
    /\ UNCHANGED <<processors, log>>

\* except Exception: the load or the constructor raised; two log lines,
\* and the loop goes on.
make_processors_except ==
    /\ mk.pc = "loop"
    /\ mk.idx <= mk.n
    /\ log' = [log EXCEPT !.failed = @ \cup {mk.idx}]
    /\ mk' = [mk EXCEPT !.idx = @ + 1]
    /\ ret' = NoCall
    /\ UNCHANGED processors

\* processors.insert(0, DefaultProcessor(_, **config)) for the append.
make_processors_default_first ==
    /\ mk.pc = "loop"
    /\ mk.idx > mk.n
    /\ processors' = List(<<DefaultProcessor>> \o processors.items)
    /\ mk' = [mk EXCEPT !.pc = "warn"]
    /\ ret' = NoCall
    /\ UNCHANGED log

\* processors.append(DefaultProcessor(_, **config)), after the loop.
make_processors_default ==
    /\ mk.pc = "loop"
    /\ mk.idx > mk.n
    /\ processors' = List(Append(processors.items, DefaultProcessor))
    /\ mk' = [mk EXCEPT !.pc = "warn"]
    /\ ret' = NoCall
    /\ UNCHANGED log

\* if len(processors) == 3: log.warn("No fedmsg.meta plugins found...") ;
\* the call returns.
make_processors_warn ==
    /\ mk.pc = "warn"
    /\ log' = [log EXCEPT !.crippled = (Len(processors.items) = BuiltinCount)]
    /\ mk' = [mk EXCEPT !.pc = "idle"]
    /\ ret' = NoCall
    /\ UNCHANGED processors

(***************************************************************************)
(* Processors as the module sees them.                                     *)
(***************************************************************************)
HandleResults == {"None", "Falsy", "Truthy"}

\* processor.handle_msg(msg, **config); an element that is no raw message
\* (a conglomerate record) is recognised by nobody.
handle_msg(p, msg) ==
    IF "h" \in DOMAIN msg THEN msg.h[p] ELSE "None"

\* The index of the first processor of `items`, from i on, whose handle_msg
\* is not None; 0 when the loop runs off the end.
RECURSIVE first_handler(_, _, _)
first_handler(items, msg, i) ==
    IF i > Len(items) THEN 0
    ELSE IF handle_msg(items[i], msg) # "None" THEN i
    ELSE first_handler(items, msg, i + 1)

\* The same loop with the test `if processor.handle_msg(msg, **config):`.
RECURSIVE first_truthy_handler(_, _, _)
first_truthy_handler(items, msg, i) ==
    IF i > Len(items) THEN 0
    ELSE IF handle_msg(items[i], msg) = "Truthy" THEN i
    ELSE first_truthy_handler(items, msg, i + 1)

msg2processor_truthy(msg) ==
    IF processors.kind # "list" THEN Raise("ProcessorsNotInitialized")
    ELSE LET items == processors.items
             i == first_truthy_handler(items, msg, 1)
         IN  IF i # 0 THEN Return(items[i])
             ELSE IF Len(items) = 0 THEN Raise("IndexError")
             ELSE Return(items[Len(items)])

\* msg2processor(msg, **config): iterating the sentinel raises it; the
\* for/else returns processors[-1], an IndexError on an empty list.
msg2processor(msg) ==
    IF processors.kind # "list" THEN Raise("ProcessorsNotInitialized")
    ELSE LET items == processors.items
             i == first_handler(items, msg, 1)
         IN  IF i # 0 THEN Return(items[i])
             ELSE IF Len(items) = 0 THEN Raise("IndexError")
             ELSE Return(items[Len(items)])

(***************************************************************************)
(* Messages.                                                               *)
(***************************************************************************)
\* A raw message: its id and timestamp, and the processors' answers on it.
Message(id, h, keyerr, nolink) ==
    [msg_id |-> id, timestamp |-> id, h |-> h, keyerr |-> keyerr,
     nolink |-> nolink]

\* Every table of handle_msg results.
HandleTables == [Procs -> HandleResults]

\* The messages msg2processor is called with.
DispatchMsgs == {Message(1, h, {}, FALSE) : h \in HandleTables}

\* The messages the msg2* queries are called with: recognised by one
\* processor or by none; no processor, one processor or every processor
\* misses a key in them; with or without a link.
ClaimTables ==
    {[p \in Procs |-> IF p \in S THEN "Truthy" ELSE "None"] :
        S \in {{}} \cup {{q} : q \in Procs}}

KeyErrSets == {{}, Procs} \cup {{q} : q \in Procs}

QueryMsgs ==
    {Message(1, h, k, nl) :
        h \in ClaimTables, k \in KeyErrSets, nl \in BOOLEAN}

(***************************************************************************)
(* Values.                                                                 *)
(***************************************************************************)
None == [type |-> "None"]

\* cls() for six.text_type, set and dict: the empty value of the type.
Construct(cls) == [type |-> cls, empty |-> TRUE]

TextFields == {"title", "subtitle", "link", "icon", "secondary_icon"}

SetFields == {"usernames", "packages", "objects"}

DictFields == {"emails", "avatars"}

TypeOf(field) ==
    IF field \in TextFields THEN "text"
    ELSE IF field \in SetFields THEN "set"
    ELSE "dict"

\* What processor p's accessor `field` makes of msg.
FieldValue(p, field, msg) ==
    [type |-> TypeOf(field), proc |-> p, field |-> field,
     msg_id |-> msg.msg_id]

\* processor.<field>(msg, **config): a KeyError when the message lacks what
\* the processor reads (a conglomerate record lacks all of it), None for a
\* link the message does not have.
processor_field(p, field, msg) ==
    IF "keyerr" \notin DOMAIN msg THEN Raise("KeyError")
    ELSE IF p \in msg.keyerr THEN Raise("KeyError")
    ELSE IF field = "link" /\ msg.nolink THEN Return(None)
    ELSE Return(FieldValue(p, field, msg))

\* `x or ''`.
or_empty(x) ==
    IF x = None \/ "empty" \in DOMAIN x THEN Construct("text") ELSE x

\* u"{title} -- {subtitle} {link}".format(**locals())
format(title, subtitle, link) ==
    [type |-> "text", fmt |-> "{title} -- {subtitle} {link}",
     title |-> title, subtitle |-> subtitle, link |-> link]

\* The `processor` keyword argument: absent (None) or a processor.
NoProcessor == <<>>

ProcessorArgs == {NoProcessor} \cup {<<p>> : p \in Procs}

(***************************************************************************)
(* The decorators.  The decorated function f is given as the table of its  *)
(* results on msg, one for every processor it can be called with.          *)
(***************************************************************************)
\* with_processor()(f)(msg, processor=None, **config)
with_processor(f, msg, processor) ==
    IF processor = NoProcessor
    THEN LET r == msg2processor(msg)
         IN  IF r.kind = "raise" THEN r ELSE f[r.val]
    ELSE f[processor[1]]

\* The same with `except Exception:` for `except KeyError:`.
legacy_condition_any(cls, r, legacy) ==
    IF r.kind = "raise"
    THEN IF legacy THEN Return(Construct(cls)) ELSE r
    ELSE r

\* legacy_condition(cls)(f)(msg, legacy=False, **config), r the outcome of
\* f(msg, **config).
legacy_condition(cls, r, legacy) ==
    IF r.kind = "raise" /\ r.exc = "KeyError"
    THEN IF legacy THEN Return(Construct(cls)) ELSE r
    ELSE r

(***************************************************************************)
(* The public queries: f_<name> is the function as written, <name> the     *)
(* module attribute, decorated.                                            *)
(***************************************************************************)
f_msg2title(msg, processor) == processor_field(processor, "title", msg)

msg2title(msg, processor, legacy) ==
    legacy_condition(
        "text",
        with_processor([p \in Procs |-> f_msg2title(msg, p)], msg, processor),
        legacy)

f_msg2repr(msg, processor) ==
    LET title == msg2title(msg, NoProcessor, FALSE)
        subtitle == processor_field(processor, "subtitle", msg)
        link == processor_field(processor, "link", msg)
    IN  IF title.kind = "raise" THEN title
        ELSE IF subtitle.kind = "raise" THEN subtitle
        ELSE IF link.kind = "raise" THEN link
        ELSE Return(format(title.val, subtitle.val, or_empty(link.val)))

msg2repr(msg, processor, legacy) ==
    legacy_condition(
        "text",
        with_processor([p \in Procs |-> f_msg2repr(msg, p)], msg, processor),
        legacy)

f_msg2subtitle(msg, processor) == processor_field(processor, "subtitle", msg)

msg2subtitle(msg, processor, legacy) ==
    legacy_condition(
        "text",
        with_processor([p \in Procs |-> f_msg2subtitle(msg, p)], msg,
                       processor),
        legacy)

f_msg2link(msg, processor) == processor_field(processor, "link", msg)

msg2link(msg, processor, legacy) ==
    legacy_condition(
        "text",
        with_processor([p \in Procs |-> f_msg2link(msg, p)], msg, processor),
        legacy)

f_msg2icon(msg, processor) == processor_field(processor, "icon", msg)

msg2icon(msg, processor, legacy) ==
    legacy_condition(
        "text",
        with_processor([p \in Procs |-> f_msg2icon(msg, p)], msg, processor),
        legacy)

f_msg2secondary_icon(msg, processor) ==
    processor_field(processor, "secondary_icon", msg)

msg2secondary_icon(msg, processor, legacy) ==
    legacy_condition(
        "text",
        with_processor([p \in Procs |-> f_msg2secondary_icon(msg, p)], msg,
                       processor),
        legacy)

f_msg2usernames(msg, processor) == processor_field(processor, "usernames", msg)

msg2usernames(msg, processor, legacy) ==
    legacy_condition(
        "set",
        with_processor([p \in Procs |-> f_msg2usernames(msg, p)], msg,
                       processor),
        legacy)

f_msg2packages(msg, processor) == processor_field(processor, "packages", msg)

msg2packages(msg, processor, legacy) ==
    legacy_condition(
        "set",
        with_processor([p \in Procs |-> f_msg2packages(msg, p)], msg,
                       processor),
        legacy)

f_msg2objects(msg, processor) == processor_field(processor, "objects", msg)

msg2objects(msg, processor, legacy) ==
    legacy_condition(
        "set",
        with_processor([p \in Procs |-> f_msg2objects(msg, p)], msg,
                       processor),
        legacy)

f_msg2emails(msg, processor) == processor_field(processor, "emails", msg)

msg2emails(msg, processor, legacy) ==
    legacy_condition(
        "dict",
        with_processor([p \in Procs |-> f_msg2emails(msg, p)], msg, processor),
        legacy)

f_msg2avatars(msg, processor) == processor_field(processor, "avatars", msg)

msg2avatars(msg, processor, legacy) ==
    legacy_condition(
        "dict",
        with_processor([p \in Procs |-> f_msg2avatars(msg, p)], msg,
                       processor),
        legacy)

\* The module attribute `name`, called.
call(name, msg, processor, legacy) ==
    CASE name = "msg2repr" -> msg2repr(msg, processor, legacy)
      [] name = "msg2title" -> msg2title(msg, processor, legacy)
      [] name = "msg2subtitle" -> msg2subtitle(msg, processor, legacy)
      [] name = "msg2link" -> msg2link(msg, processor, legacy)
      [] name = "msg2icon" -> msg2icon(msg, processor, legacy)
      [] name = "msg2secondary_icon" ->
            msg2secondary_icon(msg, processor, legacy)
      [] name = "msg2usernames" -> msg2usernames(msg, processor, legacy)
      [] name = "msg2packages" -> msg2packages(msg, processor, legacy)
      [] name = "msg2objects" -> msg2objects(msg, processor, legacy)
      [] name = "msg2emails" -> msg2emails(msg, processor, legacy)
      [] name = "msg2avatars" -> msg2avatars(msg, processor, legacy)

(***************************************************************************)
(* conglomerate.                                                           *)
(***************************************************************************)
\* 'msg_id' in message
has_msg_id(message) == "msg_id" \in DOMAIN message

\* 'msg_ids' in message
has_msg_ids(message) == "msg_ids" \in DOMAIN message

\* message[key]
item(message, key) ==
    IF key \notin DOMAIN message THEN Raise("KeyError")
    ELSE IF key = "timestamp" THEN Return(message.timestamp)
    ELSE Return(message.msg_id)

\* arrow.get(timestamp).humanize()
humanize(timestamp) == [type |-> "text", humanize |-> timestamp]

\* A record a plugin made of the messages `ids`, the first stamped `start`
\* and the last `end`.
merged_record(p, ids, start, end) ==
    [subtitle |-> [type |-> "text", proc |-> p, field |-> "subtitle",
                   msg_id |-> ids],
     link |-> [type |-> "text", proc |-> p, field |-> "link", msg_id |-> ids],
     icon |-> [type |-> "text", proc |-> p, field |-> "icon", msg_id |-> ids],
     secondary_icon |-> [type |-> "text", proc |-> p,
                         field |-> "secondary_icon", msg_id |-> ids],
     start_time |-> start,
     end_time |-> end,
     timestamp |-> end,
     human_time |-> humanize(end),
     usernames |-> [type |-> "set", proc |-> p, field |-> "usernames",
                    msg_id |-> ids],
     packages |-> [type |-> "set", proc |-> p, field |-> "packages",
                   msg_id |-> ids],
     msg_ids |-> ids]

\* The positions of `messages` holding a raw message p recognises.
mine(p, messages) ==
    {i \in 1..Len(messages) :
        /\ "msg_ids" \notin DOMAIN messages[i]
        /\ handle_msg(p, messages[i]) # "None"}

Min(S) == CHOOSE i \in S : \A j \in S : i <= j

Max(S) == CHOOSE i \in S : \A j \in S : i >= j

\* processor.conglomerate(messages, **config).  A processor of `mergers`
\* replaces the raw messages it recognises by one record, in a new list, and
\* passes every other element through; any other processor (the
\* DefaultProcessor among them) passes the list through, as the very object
\* it was given when `same`, as a copy otherwise.
processor_conglomerate(p, messages, mergers, same) ==
    LET group == mine(p, messages)
    IN  IF p \in mergers /\ group # {}
        THEN LET first == Min(group)
                 last == Max(group)
                 kept(i) == i \notin group \/ i = first
                 idxs == SelectSeq([i \in 1..Len(messages) |-> i], kept)
                 ids == SelectSeq([i \in 1..Len(messages) |->
                                      IF i \in group
                                      THEN messages[i].msg_id ELSE 0],
                                  LAMBDA x : x # 0)
                 record == merged_record(p, ids, messages[first].timestamp,
                                         messages[last].timestamp)
             IN  [list |-> [j \in 1..Len(idxs) |->
                               IF idxs[j] = first THEN record
                               ELSE messages[idxs[j]]],
                  same |-> FALSE]
        ELSE [list |-> messages, same |-> same]

\* for processor in processors: messages = processor.conglomerate(...)
\* st.list is what `messages` is bound to after the first i - 1 processors,
\* st.aliased whether it still is the caller's list object.
RECURSIVE give_every_processor_a_chance(_, _, _, _)
give_every_processor_a_chance(i, st, mergers, same) ==
    IF i > Len(processors.items) THEN st
    ELSE LET r == processor_conglomerate(processors.items[i], st.list,
                                         mergers, same)
         IN  give_every_processor_a_chance(
                 i + 1,
                 [list |-> r.list, aliased |-> st.aliased /\ r.same],
                 mergers, same)

\* The dict display of lines 184-196, its items evaluated in order; the
\* outcome, and the number of msg2* queries issued on the way.
fake_conglomerate(message) ==
    LET subtitle == msg2subtitle(message, NoProcessor, FALSE)
        link == msg2link(message, NoProcessor, FALSE)
        icon == msg2icon(message, NoProcessor, FALSE)
        secondary_icon == msg2secondary_icon(message, NoProcessor, FALSE)
        timestamp == item(message, "timestamp")
        usernames == msg2usernames(message, NoProcessor, FALSE)
        packages == msg2packages(message, NoProcessor, FALSE)
        msg_id == item(message, "msg_id")
        steps == <<subtitle, link, icon, secondary_icon, timestamp,
                   usernames, packages, msg_id>>
        isquery == <<1, 1, 1, 1, 0, 1, 1, 0>>
        raised == {k \in 1..Len(steps) : steps[k].kind = "raise"}
        issued(k) == Len(SelectSeq(SubSeq(isquery, 1, k), LAMBDA x : x = 1))
    IN  IF raised # {}
        THEN [outcome |-> steps[Min(raised)], queries |-> issued(Min(raised))]
        ELSE [outcome |-> Return(
                  [subtitle |-> subtitle.val,
                   link |-> link.val,
                   icon |-> icon.val,
                   secondary_icon |-> secondary_icon.val,
                   start_time |-> timestamp.val,
                   end_time |-> timestamp.val,
                   timestamp |-> timestamp.val,
                   human_time |-> humanize(timestamp.val),
                   usernames |-> usernames.val,
                   packages |-> packages.val,
                   msg_ids |-> <<msg_id.val>>]),
              queries |-> issued(Len(steps))]

\* The same loop without its `continue`: every element is replaced.
RECURSIVE fake_them_all(_, _, _)
fake_them_all(i, messages, queries) ==
    IF i > Len(messages)
    THEN [outcome |-> Return(messages), list |-> messages,
          queries |-> queries]
    ELSE LET r == fake_conglomerate(messages[i])
         IN  IF r.outcome.kind = "raise"
             THEN [outcome |-> r.outcome, list |-> messages,
                   queries |-> queries + r.queries]
             ELSE fake_them_all(i + 1,
                                [messages EXCEPT ![i] = r.outcome.val],
                                queries + r.queries)

\* for i, message in enumerate(messages): the list is written in place; an
\* exception leaves the elements before i replaced.
RECURSIVE fake_the_rest(_, _, _)
fake_the_rest(i, messages, queries) ==
    IF i > Len(messages)
    THEN [outcome |-> Return(messages), list |-> messages,
          queries |-> queries]
    ELSE IF has_msg_ids(messages[i])
    THEN fake_the_rest(i + 1, messages, queries)
    ELSE LET r == fake_conglomerate(messages[i])
         IN  IF r.outcome.kind = "raise"
             THEN [outcome |-> r.outcome, list |-> messages,
                   queries |-> queries + r.queries]
             ELSE fake_the_rest(i + 1,
                                [messages EXCEPT ![i] = r.outcome.val],
                                queries + r.queries)

\* conglomerate(messages, **config): what it returns or raises, what the
\* caller's list object holds afterwards, and the queries it issued.
conglomerate(messages, mergers, same) ==
    IF processors.kind # "list"
    THEN [outcome |-> Raise("ProcessorsNotInitialized"),
          caller |-> messages, queries |-> 0]
    ELSE LET st == give_every_processor_a_chance(
                       1, [list |-> messages, aliased |-> TRUE],
                       mergers, same)
             r == fake_the_rest(1, st.list, 0)
         IN  [outcome |-> r.outcome,
              caller |-> IF st.aliased THEN r.list ELSE messages,
              queries |-> r.queries]

\* The tables of the messages handed to conglomerate: recognised by one
\* plugin or by nobody.
PluginTables ==
    {[p \in Procs |-> IF p \in S THEN "Truthy" ELSE "None"] :
        S \in {{}} \cup {{q} : q \in Plugins}}

\* A record an earlier conglomerate call made of message k.
EarlierRecord(k) == merged_record(DefaultProcessor, <<k>>, k, k)

\* The lists handed to conglomerate: the element at position k is the raw
\* message with msg_id k, or a record of it; at most one message (`bad`)
\* lacks what the processors' accessors read.
Element(k, bad) ==
    {Message(k, h, IF k = bad THEN Procs ELSE {}, FALSE) :
        h \in PluginTables} \cup {EarlierRecord(k)}

ListsOf(n, bad) ==
    {l \in [1..n -> UNION {Element(k, bad) : k \in 1..n}] :
        \A k \in 1..n : l[k] \in Element(k, bad)}

Lists == UNION {ListsOf(n, bad) : n \in 0..MaxMsgs, bad \in 0..MaxMsgs}

(***************************************************************************)
(* The readers.                                                            *)
(***************************************************************************)
\* The caller has taken the result of its call; the next call can start.
Returned ==
    /\ ret # NoCall
    /\ ret' = NoCall
    /\ UNCHANGED <<processors, mk, log>>

Msg2ProcessorCall ==
    /\ ret = NoCall
    /\ \E msg \in DispatchMsgs :
          ret' = [op |-> "msg2processor", msg |-> msg,
                  outcome |-> msg2processor(msg)]
    /\ UNCHANGED <<processors, mk, log>>

\* A call of the query `name` with any message, with or without a
\* processor, with legacy set or not (a message without a link is handed
\* to the two queries that read the link).
QueryCall(name) ==
    /\ ret = NoCall
    /\ \E msg \in QueryMsgs, processor \in ProcessorArgs, legacy \in BOOLEAN :
          /\ msg.nolink => name \in {"msg2link", "msg2repr"}
          /\ ret' = [op |-> "query", name |-> name, msg |-> msg,
                  processor |-> processor, legacy |-> legacy,
                  outcome |-> call(name, msg, processor, legacy)]
    /\ UNCHANGED <<processors, mk, log>>

ConglomerateCall ==
    /\ ret = NoCall
    /\ \E messages \in Lists, mergers \in SUBSET Plugins, same \in BOOLEAN :
          ret' = [op |-> "conglomerate", messages |-> messages,
                  mergers |-> mergers, same |-> same]
                 @@ conglomerate(messages, mergers, same)
    /\ UNCHANGED <<processors, mk, log>>

Msg2ReprCall == QueryCall("msg2repr")

Msg2TitleCall == QueryCall("msg2title")

Msg2SubtitleCall == QueryCall("msg2subtitle")

Msg2LinkCall == QueryCall("msg2link")

Msg2IconCall == QueryCall("msg2icon")

Msg2SecondaryIconCall == QueryCall("msg2secondary_icon")

Msg2UsernamesCall == QueryCall("msg2usernames")

Msg2PackagesCall == QueryCall("msg2packages")

Msg2ObjectsCall == QueryCall("msg2objects")

Msg2EmailsCall == QueryCall("msg2emails")

Msg2AvatarsCall == QueryCall("msg2avatars")

Init ==
    /\ processors = ProcessorsNotInitialized
    /\ mk = Idle
    /\ log = NoWarnings
    /\ ret = NoCall

Next ==
    \/ make_processors_reset
    \/ make_processors_load
    \/ make_processors_except
    \/ make_processors_default
    \/ make_processors_warn
    \/ Returned
    \/ Msg2ProcessorCall
    \/ ConglomerateCall
    \/ Msg2ReprCall
    \/ Msg2TitleCall
    \/ Msg2SubtitleCall
    \/ Msg2LinkCall
    \/ Msg2IconCall
    \/ Msg2SecondaryIconCall
    \/ Msg2UsernamesCall
    \/ Msg2PackagesCall
    \/ Msg2ObjectsCall
    \/ Msg2EmailsCall
    \/ Msg2AvatarsCall

Spec == Init /\ [][Next]_vars

(***************************************************************************)
(* The claims.                                                             *)
(***************************************************************************)
\* make_processors has never been called.
Uninitialized == processors = ProcessorsNotInitialized

\* make_processors has run to its end at least once and is not running.
Ready == processors.kind = "list" /\ mk.pc = "idle"

\* Position i of the registry is the first whose handle_msg on msg is not
\* None.
FirstClaimant(i, msg) ==
    /\ i \in 1..Len(processors.items)
    /\ msg.h[processors.items[i]] # "None"
    /\ \A j \in 1..(i - 1) : msg.h[processors.items[j]] = "None"

NoClaimant(msg) ==
    \A i \in 1..Len(processors.items) : msg.h[processors.items[i]] = "None"

\* C1: on a Ready registry msg2processor returns the processor at the
\* smallest index whose handle_msg is not None (a falsy result that is not
\* None claims the message), and the last entry when there is none.
C1_FirstClaimantWins ==
    (Ready /\ ret.op = "msg2processor") =>
        \/ \E i \in 1..Len(processors.items) :
              /\ FirstClaimant(i, ret.msg)
              /\ ret.outcome = Return(processors.items[i])
        \/ /\ NoClaimant(ret.msg)
           /\ ret.outcome = Return(processors.items[Len(processors.items)])

\* A falsy claim at an earlier index won over a truthy claim at a later one.
C1_Witness ==
    /\ Ready
    /\ ret.op = "msg2processor"
    /\ \E i, j \in 1..Len(processors.items) :
          /\ i < j
          /\ FirstClaimant(i, ret.msg)
          /\ ret.msg.h[processors.items[i]] = "Falsy"
          /\ ret.msg.h[processors.items[j]] = "Truthy"
          /\ ret.outcome = Return(processors.items[i])

\* The result `r` is that of an operation that reads the registry.
UsesRegistry(r) ==
    \/ r.op \in {"msg2processor", "conglomerate"}
    \/ r.op = "query" /\ r.processor = NoProcessor

\* C2: while the registry is Uninitialized, msg2processor, conglomerate and
\* every msg2* query called without a processor raise
\* ProcessorsNotInitialized, with legacy set too, and leave the registry
\* Uninitialized.
C2_UninitializedRaises ==
    [][(Uninitialized /\ UsesRegistry(ret')) =>
          /\ ret'.outcome = Raise("ProcessorsNotInitialized")
          /\ processors' = ProcessorsNotInitialized]_vars

\* A query called with legacy=True on the Uninitialized registry, for a
\* message whose processors miss a key, raised ProcessorsNotInitialized.
C2_Witness ==
    /\ Uninitialized
    /\ ret.op = "query"
    /\ ret.processor = NoProcessor
    /\ ret.legacy
    /\ ret.msg.keyerr = Procs
    /\ ret.outcome = Raise("ProcessorsNotInitialized")

\* The entry points of the last make_processors whose load did not fail, in
\* discovery order.
Loaded == SelectSeq([k \in 1..mk.n |-> k], LAMBDA k : k \notin log.failed)

\* C3: when make_processors has completed on n entry points of which those
\* logged as failed did not load, the registry is the others in discovery
\* order followed by the DefaultProcessor.
C3_FailuresSkipped ==
    Ready =>
        /\ processors.items = Loaded \o <<DefaultProcessor>>
        /\ Len(processors.items) = mk.n - Cardinality(log.failed) + 1

\* A completed make_processors in which the first entry point failed and a
\* later one loaded.
C3_Witness ==
    /\ Ready
    /\ 1 \in log.failed
    /\ Len(processors.items) >= 2
    /\ processors.items[Len(processors.items)] = DefaultProcessor

\* The element is a raw message.
IsRaw(e) == "msg_ids" \notin DOMAIN e

AllRaw(l) == \A i \in 1..Len(l) : IsRaw(l[i])

DistinctIds(l) ==
    \A i, j \in 1..Len(l) : i # j => l[i].msg_id # l[j].msg_id

\* The places of the output where msg_id k is listed.
Places(out, n, k) ==
    {ij \in (1..Len(out)) \X (1..n) :
        /\ ij[2] <= Len(out[ij[1]].msg_ids)
        /\ out[ij[1]].msg_ids[ij[2]] = k}

\* C4: for raw messages with distinct ids and a Ready registry, the msg_ids
\* of the records conglomerate returns list every input id exactly once and
\* no other id, and the output is no longer than the input.
C4_Partition ==
    (/\ Ready
     /\ ret.op = "conglomerate"
     /\ AllRaw(ret.messages)
     /\ DistinctIds(ret.messages)
     /\ ret.outcome.kind = "return") =>
        LET inp == ret.messages
            out == ret.outcome.val
            ids == {inp[i].msg_id : i \in 1..Len(inp)}
        IN  /\ \A i \in 1..Len(out) : ~IsRaw(out[i])
            /\ \A i \in 1..Len(out) : Len(out[i].msg_ids) <= Len(inp)
            /\ \A k \in ids : Cardinality(Places(out, Len(inp), k)) = 1
            /\ \A i \in 1..Len(out) :
                  \A j \in 1..Len(out[i].msg_ids) : out[i].msg_ids[j] \in ids
            /\ Len(out) <= Len(inp)

\* A plugin merged raw messages: the output is shorter than the input.
C4_Witness ==
    /\ Ready
    /\ ret.op = "conglomerate"
    /\ AllRaw(ret.messages)
    /\ Len(ret.messages) >= 2
    /\ ret.outcome.kind = "return"
    /\ Len(ret.outcome.val) < Len(ret.messages)

\* The processor the call resolved: the one passed in, or the one dispatch
\* picks on the registry.
ResolvedProcessors(r) ==
    IF r.processor # NoProcessor THEN {r.processor[1]}
    ELSE IF processors.kind # "list" THEN {}
    ELSE {processors.items[i] : i \in {j \in 1..Len(processors.items) :
                                          FirstClaimant(j, r.msg)}}
         \cup (IF NoClaimant(r.msg) /\ Len(processors.items) > 0
               THEN {processors.items[Len(processors.items)]} ELSE {})

FieldOf(name) ==
    CASE name = "msg2title" -> "title"
      [] name = "msg2subtitle" -> "subtitle"
      [] name = "msg2link" -> "link"
      [] name = "msg2icon" -> "icon"
      [] name = "msg2secondary_icon" -> "secondary_icon"
      [] name = "msg2usernames" -> "usernames"
      [] name = "msg2packages" -> "packages"
      [] name = "msg2objects" -> "objects"
      [] name = "msg2emails" -> "emails"
      [] name = "msg2avatars" -> "avatars"

\* The empty value of the type of what the query returns.
EmptyOf(name) ==
    IF name \in {"msg2usernames", "msg2packages", "msg2objects"}
    THEN [type |-> "set", empty |-> TRUE]
    ELSE IF name \in {"msg2emails", "msg2avatars"}
    THEN [type |-> "dict", empty |-> TRUE]
    ELSE [type |-> "text", empty |-> TRUE]

\* title, subtitle and link of processor p, composed.
ReprOf(p, msg) ==
    format(FieldValue(p, "title", msg), FieldValue(p, "subtitle", msg),
           IF msg.nolink THEN [type |-> "text", empty |-> TRUE]
           ELSE FieldValue(p, "link", msg))

\* What processor p's accessor returns for the query, when it raises nothing.
AccessorValue(name, p, msg) ==
    IF name = "msg2repr" THEN ReprOf(p, msg)
    ELSE IF name = "msg2link" /\ msg.nolink THEN None
    ELSE FieldValue(p, FieldOf(name), msg)

\* The legacy-fallback contract for the call `r` and its resolved processor.
LegacyContract(r, p) ==
    IF p \in r.msg.keyerr
    THEN IF r.legacy THEN r.outcome = Return(EmptyOf(r.name))
         ELSE r.outcome = Raise("KeyError")
    ELSE r.outcome = Return(AccessorValue(r.name, p, r.msg))

\* C5: for the ten field queries and msg2repr, on a Ready registry, with
\* the processor resolved by dispatch or passed in from the registry: a
\* missing key in the resolved processor's accessor is raised without
\* legacy and becomes the empty value of the field's type with legacy, and
\* the accessor's value is returned otherwise.
C5_LegacyFallback ==
    (Ready /\ ret.op = "query") =>
        \A p \in ResolvedProcessors(ret) :
            (\E i \in 1..Len(processors.items) : processors.items[i] = p)
                => LegacyContract(ret, p)

\* The same contract, for the ten field queries with any processor, and
\* for msg2repr called without one.
C5_LegacyFallbackBesidesReprWithProcessor ==
    (Ready /\ ret.op = "query"
        /\ (ret.name = "msg2repr" => ret.processor = NoProcessor)) =>
        \A p \in ResolvedProcessors(ret) : LegacyContract(ret, p)

\* C6: msg2repr called with a processor P of a Ready registry, whose
\* accessors miss no key, returns P's title, P's subtitle and P's link (the
\* empty string for no link), whatever processor dispatch picks.
C6_ReprFromOneProcessor ==
    (/\ Ready
     /\ ret.op = "query"
     /\ ret.name = "msg2repr"
     /\ ret.processor # NoProcessor
     /\ \E i \in 1..Len(processors.items) :
           processors.items[i] = ret.processor[1]
     /\ ret.processor[1] \notin ret.msg.keyerr) =>
        ret.outcome = Return(ReprOf(ret.processor[1], ret.msg))

\* C7: conglomerate on a list whose every element carries msg_ids, with a
\* Ready registry, returns the same elements in the same order and issues
\* no field query.
C7_Idempotent ==
    (/\ Ready
     /\ ret.op = "conglomerate"
     /\ \A i \in 1..Len(ret.messages) : ~IsRaw(ret.messages[i])) =>
        /\ ret.outcome = Return(ret.messages)
        /\ ret.queries = 0

\* conglomerate ran on two records with merging plugins in the registry.
C7_Witness ==
    /\ Ready
    /\ ret.op = "conglomerate"
    /\ Len(ret.messages) >= 2
    /\ \A i \in 1..Len(ret.messages) : ~IsRaw(ret.messages[i])
    /\ Len(processors.items) >= 2
    /\ \A i \in 1..(Len(processors.items) - 1) :
          processors.items[i] \in ret.mergers
    /\ ret.outcome = Return(ret.messages)

\* C8: make_processors logs the 'no plugins found' warning exactly when the
\* registry it built holds no plugin, the DefaultProcessor alone.
C8_WarnsIffNoPlugin ==
    Ready =>
        (log.crippled <=>
            \A i \in 1..Len(processors.items) :
                processors.items[i] = DefaultProcessor)

\* The registry is not empty, ends with the DefaultProcessor, and the last
\* reader was handed a processor (msg2processor) or did not run off the
\* registry (conglomerate).
DefaultIsLast ==
    /\ Len(processors.items) > 0
    /\ processors.items[Len(processors.items)] = DefaultProcessor
    /\ ret.op = "msg2processor" =>
          /\ ret.outcome.kind = "return"
          /\ \E i \in 1..Len(processors.items) :
                processors.items[i] = ret.outcome.val
    /\ ret.op = "conglomerate" =>
          ret.outcome \notin {Raise("IndexError"),
                              Raise("ProcessorsNotInitialized")}

\* C9, as stated: in every state in which the registry is not the
\* sentinel, between the statements of a running make_processors too, the
\* registry is non-empty with the DefaultProcessor last, and a dispatch
\* returns a processor.
C9_DefaultLastAtEveryStep ==
    processors.kind = "list" => DefaultIsLast

\* C9, amended: the same in every state in which the registry is not the
\* sentinel and no make_processors is between its reset and its return,
\* after a second call as after the first.
C9_DefaultLastWhenReady ==
    Ready => DefaultIsLast

\* On a Ready registry with a plugin, nobody recognised the message and
\* dispatch returned the DefaultProcessor.
C9_Witness ==
    /\ Ready
    /\ Len(processors.items) >= 2
    /\ ret.op = "msg2processor"
    /\ NoClaimant(ret.msg)
    /\ ret.outcome = Return(DefaultProcessor)

\* C10: after conglomerate on raw messages, with a Ready registry whose
\* processors pass their input through, the list object the caller passed
\* holds the same raw messages as before.
C10_InputUnchanged ==
    (/\ Ready
     /\ ret.op = "conglomerate"
     /\ AllRaw(ret.messages)
     /\ ret.mergers = {}) =>
        ret.caller = ret.messages

====
